---- MODULE Spec2Model ----
(***************************************************************************)
(* Model of the label-studio ML backends for borehole profiles:            *)
(*   - boreholes_backend: LayerExtractionModel.predict and                 *)
(*     utils.build_model_predictions (the coordinate/annotation mapper);   *)
(*   - tesseract and text_extractor: the two extract_depth_interval        *)
(*     heuristics.                                                         *)
(***************************************************************************)
EXTENDS Integers, Sequences, FiniteSets, TLC

VARIABLES
    pc,                          \* position of LayerExtractionModel.predict
    prediction,                  \* what start_pipeline returned: a sequence of FilePredictions
    page_number,                 \* requested page, 0-based
    ls_page_width,               \* image.size[0]
    pre_annotation_result,       \* utils.py:30
    layers_with_depth_intervals, \* utils.py:31
    layers,                      \* utils.py:60
    layer_idx,                   \* position of the outer loop, utils.py:61
    label_idx,                   \* position of the inner loop, utils.py:62
    rel_idx,                     \* position of the relation loop, utils.py:128
    model_predictions,           \* what predict hands to ModelResponse
    raised,                      \* the exception that left predict, or "none"
    result_text,                 \* the recovered text handed to extract_depth_interval
    tesseract_out,               \* outcome of tesseract.extract_depth_interval
    text_extractor_out           \* outcome of text_extractor.extract_depth_interval

mapper_vars == <<pc, prediction, page_number, ls_page_width, pre_annotation_result,
                 layers_with_depth_intervals, layers, layer_idx, label_idx, rel_idx,
                 model_predictions, raised>>
text_vars == <<result_text, tesseract_out, text_extractor_out>>
vars == <<mapper_vars, text_vars>>

-----------------------------------------------------------------------------
(* Bounds of the model.                                                    *)

MaxLayers == 2
MaxLen == 5

-----------------------------------------------------------------------------
(* Values of the pipeline's prediction object.                             *)

None == [none |-> TRUE]

Uuids == {"uuid_a", "uuid_b"}

LsPageWidths == {150, 300}

LayerHex(i) == "layer" \o ToString(i)

\* page_sizes of the document: one entry per page, in pixels
PageSizes == <<[width |-> 200, height |-> 400], [width |-> 300, height |-> 400]>>

NumPages == Len(PageSizes)

\* the requested page: a page of the document, or the index one past its last page
PageNumbers == 0..NumPages

Rect(x0, y0, w, h) == [x0 |-> x0, y0 |-> y0, width |-> w, height |-> h]

MaterialRect(i) == Rect(60, 20 * i, 100, 10)

StartRect(i) == Rect(10, 20 * i, 20, 4)

EndRect(i) == Rect(10, 20 * i + 6, 24, 4)

BackgroundRect(i) == Rect(10, 20 * i, 24, 10)

CoordinatesRect == Rect(120, 2, 50, 6)

\* depth values are floats; a value is held as its number of tenths
StartValue(i) == 15 * i

EndValue(i) == 15 * i + 25

DepthIntervals(i) ==
    { None,
      [start |-> None, end |-> None, background_rect |-> None],
      [start |-> [rect |-> StartRect(i), value |-> StartValue(i)], end |-> None,
       background_rect |-> None],
      [start |-> None, end |-> [rect |-> EndRect(i), value |-> EndValue(i)],
       background_rect |-> None],
      [start |-> [rect |-> StartRect(i), value |-> StartValue(i)],
       end |-> [rect |-> EndRect(i), value |-> EndValue(i)],
       background_rect |-> BackgroundRect(i)] }

LayerPredictions(i) ==
    { [id |-> LayerHex(i),
       material_description |-> [rect |-> MaterialRect(i), text |-> "text" \o ToString(i),
                                 page_number |-> p],
       depth_interval |-> d] : p \in 1..NumPages, d \in DepthIntervals(i) }

LayerLists ==
    UNION { { s \in [1..n -> UNION { LayerPredictions(i) : i \in 1..n }] :
                \A i \in 1..n : s[i] \in LayerPredictions(i) } : n \in 0..MaxLayers }

\* a bounding box that starts left of the page edge
CoordinatesRectOffPage == Rect(-4, 2, 50, 6)

Coordinates == {None} \cup { [rect |-> r, page |-> p, str |-> "E: 2600000, N: 1200000"] :
                             r \in {CoordinatesRect, CoordinatesRectOffPage}, p \in 1..NumPages }

FilePredictions ==
    { [layers |-> l, metadata |-> [coordinates |-> c], page_sizes |-> PageSizes] :
        l \in LayerLists, c \in Coordinates }

\* start_pipeline returns a dict keyed by file name: no document, or one
Predictions == {<<>>} \cup { <<f>> : f \in FilePredictions }

-----------------------------------------------------------------------------
(* boreholes_backend/utils.py                                              *)

RECURSIVE GCD(_, _)
GCD(a, b) == IF b = 0 THEN a ELSE GCD(b, a % b)

\* the quotient n / d of a true division, kept exact as a reduced fraction
Quotient(n, d) == [num |-> n \div GCD(n, d), den |-> d \div GCD(n, d)]

convert_to_ls(pixel_position, original_length) ==
    Quotient(100 * pixel_position, original_length)

\* y and height are divided by the page width too
RectValueWidthOnly(rect, page_size) ==
    [x |-> convert_to_ls(rect.x0, page_size.width),
     y |-> convert_to_ls(rect.y0, page_size.width),
     width |-> convert_to_ls(rect.width, page_size.width),
     height |-> convert_to_ls(rect.height, page_size.width),
     rotation |-> 0]

\* the value dict built from one rectangle (utils.py:39-51, 64-76, 83-98, 102-120)
RectValue(rect, page_size) ==
    [x |-> convert_to_ls(rect.x0, page_size.width),
     y |-> convert_to_ls(rect.y0, page_size.height),
     width |-> convert_to_ls(rect.width, page_size.width),
     height |-> convert_to_ls(rect.height, page_size.height),
     rotation |-> 0]

\* int(page_sizes[page_number][key] * scale_factor), scale_factor = ls_page_width / width
ScaledLength(length, ls_width, page_size) == (length * ls_width) \div page_size.width

\* str() of a float that has one decimal digit, held as its number of tenths
FloatStr(tenths) == ToString(tenths \div 10) \o "." \o ToString(tenths % 10)

\* the textarea variant is forgotten
TypesWithoutTextarea == <<"rectangle", "labels">>

Types == <<"rectangle", "labels", "textarea">>

\* the inner loop takes the Depth Interval first
LabelsDepthIntervalFirst == <<"Depth Interval", "Material Description">>

Labels == <<"Material Description", "Depth Interval">>

\* the fields every pre_annotation shares (utils.py:173-182 and 232-241)
PreAnnotation(id, type, value, page_size, ls_width) ==
    [id |-> id, type |-> type, value |-> value,
     original_width |-> ScaledLength(page_size.width, ls_width, page_size),
     original_height |-> ScaledLength(page_size.height, ls_width, page_size),
     image_rotation |-> 0, origin |-> "manual",
     from_name |-> CASE type = "rectangle" -> "bbox"
                     [] type = "labels" -> "label"
                     [] type = "textarea" -> "transcription",
     to_name |-> "image"]

\* a missing start is formatted as it is, not as 0
DepthIntervalTextStartNone(layer) ==
    IF layer.depth_interval.start = None
    THEN "start: None end: " \o FloatStr(layer.depth_interval.end.value)
    ELSE "start: " \o FloatStr(layer.depth_interval.start.value)
         \o " end: " \o FloatStr(layer.depth_interval.end.value)

\* the text of a Depth Interval textarea (utils.py:196-201)
DepthIntervalText(layer) ==
    IF layer.depth_interval.start = None
    THEN "start: 0 end: " \o FloatStr(layer.depth_interval.end.value)
    ELSE "start: " \o FloatStr(layer.depth_interval.start.value)
         \o " end: " \o FloatStr(layer.depth_interval.end.value)

\* reading layer.depth_interval.end.value of an interval without end raises
CreateLsResultRaises(layer, label) ==
    /\ label = "Depth Interval"
    /\ \/ layer.depth_interval = None
       \/ layer.depth_interval.end = None

create_ls_result(layer, file_prediction, page_no, value, label, ls_width) ==
    [t \in 1..Len(Types) |->
        LET _type == Types[t]
            v == CASE _type = "rectangle" -> value
                   [] _type = "labels" -> value @@ [labels |-> <<label>>]
                   [] _type = "textarea" ->
                        IF label = "Material Description"
                        THEN value @@ [text |-> <<layer.material_description.text>>]
                        ELSE IF label = "Depth Interval"
                        THEN value @@ [text |-> <<DepthIntervalText(layer)>>]
                        ELSE value
        IN PreAnnotation(layer.id \o "_" \o label, _type, v,
                         file_prediction.page_sizes[page_no + 1], ls_width)]

create_metadata_ls_result(metadata_prediction, file_prediction, page_no, value, label, metadata_id, ls_width) ==
    [t \in 1..Len(Types) |->
        LET _type == Types[t]
            v == CASE _type = "rectangle" -> value
                   [] _type = "labels" -> value @@ [labels |-> <<label>>]
                   [] _type = "textarea" ->
                        IF label = "Coordinates"
                        THEN value @@ [text |-> <<metadata_prediction.coordinates.str>>]
                        ELSE value
        IN PreAnnotation(metadata_id, _type, v,
                         file_prediction.page_sizes[page_no + 1], ls_width)]

\* the 0-based page index is compared with the 1-based page of the layer
filter_layers_by_page_zero_based(layer_list, page_no) ==
    SelectSeq(layer_list, LAMBDA layer : layer.material_description.page_number = page_no)

filter_layers_by_page(layer_list, page_no) ==
    SelectSeq(layer_list, LAMBDA layer : layer.material_description.page_number = page_no + 1)

\* the 0-based page index is compared with the 1-based page of the coordinates
CoordinatesOnPageZeroBased(coordinates, page_no) ==
    coordinates # None /\ page_no = coordinates.page

\* utils.py:37
CoordinatesOnPage(coordinates, page_no) ==
    coordinates # None /\ page_no + 1 = coordinates.page

\* the branch for an interval with end only is missing
DepthIntervalBranchNoEndOnly(layer) ==
    IF layer.depth_interval = None THEN "none"
    ELSE IF layer.depth_interval.start # None /\ layer.depth_interval.end # None THEN "both"
    ELSE "incomplete"

\* the branch for a complete interval tests start alone
DepthIntervalBranchStartAlone(layer) ==
    IF layer.depth_interval = None THEN "none"
    ELSE IF layer.depth_interval.start = None /\ layer.depth_interval.end # None THEN "end"
    ELSE IF layer.depth_interval.start # None THEN "both"
    ELSE "incomplete"

\* the branch for an interval with end only tests start alone
DepthIntervalBranchStartNoneAlone(layer) ==
    IF layer.depth_interval = None THEN "none"
    ELSE IF layer.depth_interval.start = None THEN "end"
    ELSE IF layer.depth_interval.start # None /\ layer.depth_interval.end # None THEN "both"
    ELSE "incomplete"

\* the branch of utils.py:78-124 a layer takes
DepthIntervalBranch(layer) ==
    IF layer.depth_interval = None THEN "none"
    ELSE IF layer.depth_interval.start = None /\ layer.depth_interval.end # None THEN "end"
    ELSE IF layer.depth_interval.start # None /\ layer.depth_interval.end # None THEN "both"
    ELSE "incomplete"

\* file_predictions.page_sizes[page_number] is an entry of the list
PageSizeExists(file_predictions, page_no) ==
    page_no + 1 <= Len(file_predictions.page_sizes)

Relation(layer_id) ==
    [type |-> "relation", to_id |-> layer_id \o "_Depth Interval",
     from_id |-> layer_id \o "_Material Description", direction |-> "right"]

\* the result list is returned without its prediction wrapper
ModelPredictionsUnwrapped(result) == result

\* utils.py:137-140
ModelPredictions(result) == <<[model_version |-> "0.0.1", result |-> result]>>

\* a complete interval is drawn from the rectangle of its start
DepthIntervalRectFromStart(layer, branch) ==
    CASE branch = "end" ->
            IF layer.depth_interval.end = None THEN None ELSE layer.depth_interval.end.rect
      [] branch = "both" -> layer.depth_interval.start.rect
      [] OTHER -> None

\* the rectangle a Depth Interval region is drawn from (utils.py:83-120); None
\* when the object it is read from is None, which makes the attribute access raise
DepthIntervalRect(layer, branch) ==
    CASE branch = "end" ->
            IF layer.depth_interval.end = None THEN None ELSE layer.depth_interval.end.rect
      [] branch = "both" -> layer.depth_interval.background_rect
      [] OTHER -> None

-----------------------------------------------------------------------------
(* Text: a string is held as the sequence of its characters.  The recovered *)
(* texts are the concatenations of at most MaxLen pieces.                   *)

Digits == {"0", "1", "2", "3", "4", "5", "6", "7", "8", "9"}

Pieces == {<<"0">>, <<"1">>, <<",">>, <<".">>, <<"-">>, <<"\n">>, <<"e">>,
           <<",", "0", "0", "0">>}

RECURSIVE Flatten(_)
Flatten(ps) == IF ps = <<>> THEN <<>> ELSE Head(ps) \o Flatten(Tail(ps))

Texts == { Flatten(ps) : ps \in UNION { [1..n -> Pieces] : n \in 0..MaxLen } }

\* the character at position i (1-based), "" past the end
At(s, i) == IF i >= 1 /\ i <= Len(s) THEN s[i] ELSE ""

IsDigit(c) == c \in Digits

\* the position after the longest run of digits that starts at i
RECURSIVE DigitsEnd(_, _)
DigitsEnd(s, i) == IF IsDigit(At(s, i)) THEN DigitsEnd(s, i + 1) ELSE i

RECURSIVE Join(_)
Join(s) == IF s = <<>> THEN "" ELSE Head(s) \o Join(Tail(s))

\* str.replace(",", ".")
ReplaceComma(s) == [i \in 1..Len(s) |-> IF s[i] = "," THEN "." ELSE s[i]]

\* str.split("\n")
RECURSIVE Split(_, _)
Split(s, cur) ==
    IF s = <<>> THEN <<cur>>
    ELSE IF Head(s) = "\n" THEN <<cur>> \o Split(Tail(s), <<>>)
    ELSE Split(Tail(s), Append(cur, Head(s)))

-----------------------------------------------------------------------------
(* float() and the str() of a float.  A float is held as the decimal it     *)
(* stands for: digits, its significant digits without leading or trailing    *)
(* zeros, and decpt, with value 0.digits * 10^decpt; zero has no digits.     *)
(* Strings of up to 15 significant digits convert without rounding.          *)

DigitValue(c) ==
    CASE c = "0" -> 0 [] c = "1" -> 1 [] c = "2" -> 2 [] c = "3" -> 3 [] c = "4" -> 4
      [] c = "5" -> 5 [] c = "6" -> 6 [] c = "7" -> 7 [] c = "8" -> 8 [] c = "9" -> 9

RECURSIVE IntOf(_)
IntOf(ds) == IF ds = <<>> THEN 0 ELSE 10 * IntOf(SubSeq(ds, 1, Len(ds) - 1)) + DigitValue(ds[Len(ds)])

RECURSIVE StripLeadingZeros(_, _)
StripLeadingZeros(ds, decpt) ==
    IF ds # <<>> /\ Head(ds) = "0" THEN StripLeadingZeros(Tail(ds), decpt - 1)
    ELSE [digits |-> ds, decpt |-> decpt]

RECURSIVE StripTrailingZeros(_)
StripTrailingZeros(ds) ==
    IF ds # <<>> /\ ds[Len(ds)] = "0" THEN StripTrailingZeros(SubSeq(ds, 1, Len(ds) - 1)) ELSE ds

Inf == [digits |-> <<"inf">>, decpt |-> 0]

Zero == [digits |-> <<>>, decpt |-> 0]

\* float(s) for s = [sign] mantissa [e [sign] digits], the mantissa made of digits and
\* points with at least one digit; the sign is dropped, as abs() does next.  A mantissa
\* with more than one point is no float literal: ValueError.
ParseAbsFloat(s) ==
    LET body == IF At(s, 1) \in {"-", "+"} THEN Tail(s) ELSE s
        epos == { i \in 1..Len(body) : body[i] \in {"e", "E"} }
        mlen == IF epos = {} THEN Len(body) ELSE (CHOOSE i \in epos : TRUE) - 1
        mant == SubSeq(body, 1, mlen)
        expo == SubSeq(body, mlen + 2, Len(body))
        esign == IF At(expo, 1) = "-" THEN -1 ELSE 1
        edigits == IF At(expo, 1) \in {"-", "+"} THEN Tail(expo) ELSE expo
        e == esign * IntOf(edigits)
        points == { i \in 1..Len(mant) : mant[i] = "." }
        ipart == IF points = {} THEN mant ELSE SubSeq(mant, 1, (CHOOSE i \in points : TRUE) - 1)
        all == SelectSeq(mant, IsDigit)
        lead == StripLeadingZeros(all, Len(ipart) + e)
        ds == StripTrailingZeros(lead.digits)
    IN IF Cardinality(points) > 1 THEN [kind |-> "ValueError", value |-> Zero]
       ELSE IF ds = <<>> \/ lead.decpt < -323 THEN [kind |-> "ok", value |-> Zero]
       ELSE IF lead.decpt > 309 THEN [kind |-> "ok", value |-> Inf]
       ELSE [kind |-> "ok", value |-> [digits |-> ds, decpt |-> lead.decpt]]

Zeros(n) == [i \in 1..n |-> "0"]

\* the decimal digits of a natural number
RECURSIVE NatDigits(_)
NatDigits(n) == IF n < 10 THEN <<ToString(n)>> ELSE NatDigits(n \div 10) \o <<ToString(n % 10)>>

\* str(x) of a float: repr, the shortest string that reads back as x
FloatRepr(x) ==
    LET ds == x.digits
        n == Len(ds)
        decpt == x.decpt
        e == decpt - 1
        mag == IF e < 0 THEN -e ELSE e
    IN IF x = Zero THEN <<"0", ".", "0">>
       ELSE IF x = Inf THEN <<"i", "n", "f">>
       ELSE IF decpt > 16 \/ decpt <= -4
            THEN <<ds[1]>> \o (IF n > 1 THEN <<".">> \o Tail(ds) ELSE <<>>)
                 \o <<"e", IF e < 0 THEN "-" ELSE "+">>
                 \o (IF mag < 10 THEN <<"0">> ELSE <<>>) \o NatDigits(mag)
       ELSE IF decpt <= 0 THEN <<"0", ".">> \o Zeros(-decpt) \o ds
       ELSE IF n <= decpt THEN ds \o Zeros(decpt - n) \o <<".", "0">>
       ELSE SubSeq(ds, 1, decpt) \o <<".">> \o SubSeq(ds, decpt + 1, n)

Sentinel == "start: end: "

Pending == [kind |-> "pending", value |-> ""]

Returned(str) == [kind |-> "return", value |-> str]

Raised(exc) == [kind |-> "raise", value |-> exc]

-----------------------------------------------------------------------------
(* tesseract/tesseract.py                                                   *)

\* (?:,\d\d\d)* from position i: the position after the last group
RECURSIVE CommaGroupsEnd(_, _)
CommaGroupsEnd(s, i) ==
    IF At(s, i) = "," /\ IsDigit(At(s, i + 1)) /\ IsDigit(At(s, i + 2)) /\ IsDigit(At(s, i + 3))
    THEN CommaGroupsEnd(s, i + 4)
    ELSE i

\* (?:[eE][-+]?\d+)? from position i: the position after it
ExponentEnd(s, i) ==
    LET j == IF At(s, i + 1) \in {"-", "+"} THEN i + 2 ELSE i + 1
    IN IF At(s, i) \in {"e", "E"} /\ IsDigit(At(s, j)) THEN DigitsEnd(s, j) ELSE i

\* the pattern of tesseract.py:166 matched at position p: the position after the
\* match, 0 without match
NumberMatchEnd(s, p) ==
    LET q1 == IF At(s, p) \in {"-", "+"} THEN p + 1 ELSE p
        q2 == IF At(s, q1) = "." THEN q1 + 1 ELSE q1
        q3 == DigitsEnd(s, q2)
        q4 == CommaGroupsEnd(s, q3)
        q5 == IF At(s, q4) = "." THEN q4 + 1 ELSE q4
        q6 == DigitsEnd(s, q5)
    IN IF IsDigit(At(s, q2)) THEN ExponentEnd(s, q6) ELSE 0

\* re.search: the leftmost match from position p on, <<>> for None
RECURSIVE NumberSearch(_, _)
NumberSearch(s, p) ==
    IF p > Len(s) THEN <<>>
    ELSE IF NumberMatchEnd(s, p) # 0 THEN SubSeq(s, p, NumberMatchEnd(s, p) - 1)
    ELSE NumberSearch(s, p + 1)

\* None.group() raises AttributeError, float() of a malformed number ValueError
get_number_from_string(string) ==
    LET number == NumberSearch(string, 1)
    IN IF number = <<>> THEN [kind |-> "AttributeError", value |-> Zero]
       ELSE ParseAbsFloat(ReplaceComma(number))

tesseract_extract_depth_interval(text) ==
    LET numbers == Split(text, <<>>)
        start == get_number_from_string(numbers[1])
        end == get_number_from_string(numbers[Len(numbers)])
    IN IF Len(numbers) >= 2
       THEN IF start.kind = "AttributeError" THEN Returned(Sentinel)
            ELSE IF start.kind = "ValueError" THEN Raised("ValueError")
            ELSE IF end.kind = "AttributeError" THEN Returned(Sentinel)
            ELSE IF end.kind = "ValueError" THEN Raised("ValueError")
            ELSE Returned("start: " \o Join(FloatRepr(start.value))
                          \o " end: " \o Join(FloatRepr(end.value)))
       ELSE Returned(Sentinel)

-----------------------------------------------------------------------------
(* text_extractor/model.py                                                  *)

\* -?([0-9]+([\.,][0-9]+)?) matched at position p: <<first, after>>, the span of
\* group 1, <<0, 0>> without match
GroupMatch(s, p) ==
    LET q1 == IF At(s, p) = "-" THEN p + 1 ELSE p
        q2 == DigitsEnd(s, q1)
        q3 == IF At(s, q2) \in {".", ","} /\ IsDigit(At(s, q2 + 1)) THEN DigitsEnd(s, q2 + 1) ELSE q2
    IN IF IsDigit(At(s, q1)) THEN <<q1, q3>> ELSE <<0, 0>>

\* re.findall from position p on: group 1 of every match, left to right
RECURSIVE FindAll(_, _)
FindAll(s, p) ==
    IF p > Len(s) THEN <<>>
    ELSE IF GroupMatch(s, p)[1] # 0
         THEN <<SubSeq(s, GroupMatch(s, p)[1], GroupMatch(s, p)[2] - 1)>>
              \o FindAll(s, GroupMatch(s, p)[2])
    ELSE FindAll(s, p + 1)

get_numbers_from_string(string) ==
    LET numbers == FindAll(string, 1)
    IN [i \in 1..Len(numbers) |-> ParseAbsFloat(ReplaceComma(numbers[i]))]

text_extractor_extract_depth_interval(text) ==
    LET numbers == get_numbers_from_string(text)
        n == Len(numbers)
    IN IF \E i \in 1..n : numbers[i].kind # "ok" THEN Raised(numbers[1].kind)
       ELSE IF n = 1 THEN Returned("start: 0 end: " \o Join(FloatRepr(numbers[1].value)))
       ELSE IF n >= 2 THEN Returned("start: " \o Join(FloatRepr(numbers[1].value))
                                   \o " end: " \o Join(FloatRepr(numbers[n].value)))
       ELSE Returned(Sentinel)

-----------------------------------------------------------------------------
(* LayerExtractionModel.predict and build_model_predictions, step by step.  *)

MapperInit ==
    /\ pc = "idle"
    /\ prediction = <<>>
    /\ page_number = 0
    /\ ls_page_width = 0
    /\ pre_annotation_result = <<>>
    /\ layers_with_depth_intervals = <<>>
    /\ layers = <<>>
    /\ layer_idx = 0
    /\ label_idx = 0
    /\ rel_idx = 0
    /\ model_predictions = <<>>
    /\ raised = "none"

TextIdle ==
    /\ result_text = <<>>
    /\ tesseract_out = Pending
    /\ text_extractor_out = Pending

\* model.py:33-57: the task names the page, the pipeline runs, the first document
\* is taken; an empty dict raises IndexError, caught at model.py:62-64
Predict ==
    /\ pc = "idle"
    /\ \E p \in Predictions, n \in PageNumbers, w \in LsPageWidths :
        /\ prediction' = p
        /\ page_number' = n
        /\ ls_page_width' = w
        /\ IF Len(p) = 0
           THEN pc' = "done" /\ model_predictions' = <<>>
           ELSE pc' = "build" /\ UNCHANGED model_predictions
    /\ UNCHANGED <<pre_annotation_result, layers_with_depth_intervals, layers, layer_idx,
                   label_idx, rel_idx, raised>>
    /\ UNCHANGED text_vars

\* utils.py:30-32; a page without page-size entry raises IndexError, caught at
\* model.py:62-64
BuildStart ==
    /\ pc = "build"
    /\ pre_annotation_result' = <<>>
    /\ layers_with_depth_intervals' = <<>>
    /\ IF PageSizeExists(prediction[1], page_number)
       THEN pc' = "metadata" /\ UNCHANGED model_predictions
       ELSE pc' = "done" /\ model_predictions' = <<>>
    /\ UNCHANGED <<prediction, page_number, ls_page_width, layers, layer_idx, label_idx,
                   rel_idx, raised>>
    /\ UNCHANGED text_vars

\* utils.py:34-57
ExtractMetadata ==
    /\ pc = "metadata"
    /\ LET file_predictions == prediction[1]
           metadata_prediction == file_predictions.metadata
           coordinates == metadata_prediction.coordinates
       IN IF CoordinatesOnPage(coordinates, page_number)
          THEN \E metadata_id \in Uuids :
                  pre_annotation_result' = pre_annotation_result \o
                      create_metadata_ls_result(
                          metadata_prediction, file_predictions, page_number,
                          RectValue(coordinates.rect, file_predictions.page_sizes[page_number + 1]),
                          "Coordinates", metadata_id, ls_page_width)
          ELSE UNCHANGED pre_annotation_result
    /\ pc' = "filter"
    /\ UNCHANGED <<prediction, page_number, ls_page_width, layers_with_depth_intervals, layers,
                   layer_idx, label_idx, rel_idx, model_predictions, raised>>
    /\ UNCHANGED text_vars

\* utils.py:60
FilterLayers ==
    /\ pc = "filter"
    /\ layers' = filter_layers_by_page(prediction[1].layers, page_number)
    /\ layer_idx' = 1
    /\ label_idx' = 1
    /\ pc' = "layers"
    /\ UNCHANGED <<prediction, page_number, ls_page_width, pre_annotation_result,
                   layers_with_depth_intervals, rel_idx, model_predictions, raised>>
    /\ UNCHANGED text_vars

\* utils.py:61-126: one pass of the inner loop, for one layer and one label
LayerLabelStep ==
    /\ pc = "layers"
    /\ layer_idx <= Len(layers)
    /\ LET layer == layers[layer_idx]
           label == Labels[label_idx]
           file_predictions == prediction[1]
           page_size == file_predictions.page_sizes[page_number + 1]
           branch == DepthIntervalBranch(layer)
           skipped == label = "Depth Interval" /\ branch \in {"none", "incomplete"}
           rect == IF label = "Material Description"
                   THEN layer.material_description.rect
                   ELSE DepthIntervalRect(layer, branch)
           fails == ~skipped /\ (rect = None \/ CreateLsResultRaises(layer, label))
       IN /\ layers_with_depth_intervals' =
                IF label = "Depth Interval" /\ branch \in {"end", "both"}
                THEN Append(layers_with_depth_intervals, layer.id)
                ELSE layers_with_depth_intervals
          /\ pre_annotation_result' =
                IF skipped \/ fails
                THEN pre_annotation_result
                ELSE pre_annotation_result \o
                     create_ls_result(layer, file_predictions, page_number,
                                      RectValue(rect, page_size), label, ls_page_width)
          /\ IF fails
             THEN /\ raised' = "AttributeError"
                  /\ pc' = "raised"
                  /\ UNCHANGED <<layer_idx, label_idx>>
             ELSE /\ UNCHANGED <<raised, pc>>
                  /\ IF label_idx < Len(Labels)
                     THEN label_idx' = label_idx + 1 /\ UNCHANGED layer_idx
                     ELSE label_idx' = 1 /\ layer_idx' = layer_idx + 1
    /\ UNCHANGED <<prediction, page_number, ls_page_width, layers, rel_idx, model_predictions>>
    /\ UNCHANGED text_vars

\* utils.py:61, 128: the layer loop is exhausted
EndLayers ==
    /\ pc = "layers"
    /\ layer_idx > Len(layers)
    /\ pc' = "relations"
    /\ rel_idx' = 1
    /\ UNCHANGED <<prediction, page_number, ls_page_width, pre_annotation_result,
                   layers_with_depth_intervals, layers, layer_idx, label_idx,
                   model_predictions, raised>>
    /\ UNCHANGED text_vars

\* utils.py:128-135: one pass of the relation loop
EmitRelation ==
    /\ pc = "relations"
    /\ rel_idx <= Len(layers_with_depth_intervals)
    /\ pre_annotation_result' =
          Append(pre_annotation_result, Relation(layers_with_depth_intervals[rel_idx]))
    /\ rel_idx' = rel_idx + 1
    /\ UNCHANGED <<pc, prediction, page_number, ls_page_width, layers_with_depth_intervals,
                   layers, layer_idx, label_idx, model_predictions, raised>>
    /\ UNCHANGED text_vars

\* utils.py:137-140 and model.py:61, 65
BuildReturn ==
    /\ pc = "relations"
    /\ rel_idx > Len(layers_with_depth_intervals)
    /\ model_predictions' = ModelPredictions(pre_annotation_result)
    /\ pc' = "done"
    /\ UNCHANGED <<prediction, page_number, ls_page_width, pre_annotation_result,
                   layers_with_depth_intervals, layers, layer_idx, label_idx, rel_idx, raised>>
    /\ UNCHANGED text_vars

\* tesseract.py:85-91: the OCR text of a Depth Interval box goes through the heuristic
TesseractExtract ==
    /\ tesseract_out = Pending
    /\ tesseract_out' = tesseract_extract_depth_interval(result_text)
    /\ UNCHANGED <<result_text, text_extractor_out>>
    /\ UNCHANGED mapper_vars

\* text_extractor/model.py:95-102: the text of the PDF layer of a Depth Interval box
\* goes through the heuristic
TextExtractorExtract ==
    /\ text_extractor_out = Pending
    /\ text_extractor_out' = text_extractor_extract_depth_interval(result_text)
    /\ UNCHANGED <<result_text, tesseract_out>>
    /\ UNCHANGED mapper_vars

Init == MapperInit /\ TextIdle

TextInit ==
    /\ MapperInit
    /\ result_text \in Texts
    /\ tesseract_out = Pending
    /\ text_extractor_out = Pending

TextNext == TesseractExtract \/ TextExtractorExtract

SpecText == TextInit /\ [][TextNext]_vars

Next ==
    \/ Predict
    \/ BuildStart
    \/ ExtractMetadata
    \/ FilterLayers
    \/ LayerLabelStep
    \/ EndLayers
    \/ EmitRelation
    \/ BuildReturn

Spec == Init /\ [][Next]_vars

-----------------------------------------------------------------------------
(* Vocabulary of the properties of the mapper.                             *)

\* the result list predict returned; empty when it returned no prediction
Emitted == IF Len(model_predictions) = 0 THEN <<>> ELSE model_predictions[1].result

InputLayers == IF Len(prediction) = 0 THEN <<>> ELSE prediction[1].layers

InputCoordinates == IF Len(prediction) = 0 THEN None ELSE prediction[1].metadata.coordinates

OnRequestedPage(layer) == layer.material_description.page_number = page_number + 1

HasEnd(layer) == layer.depth_interval # None /\ layer.depth_interval.end # None

HasStart(layer) == layer.depth_interval # None /\ layer.depth_interval.start # None

MdId(layer) == layer.id \o "_Material Description"

DiId(layer) == layer.id \o "_Depth Interval"

\* positions of the annotation results carrying the id
ResultsWithId(seq, id) == { k \in 1..Len(seq) : seq[k].type # "relation" /\ seq[k].id = id }

\* positions of the relations touching the layer
RelationsOf(seq, layer) ==
    { k \in 1..Len(seq) :
        /\ seq[k].type = "relation"
        /\ seq[k].from_id \in {MdId(layer), DiId(layer)} \/ seq[k].to_id \in {MdId(layer), DiId(layer)} }

RegionIds(seq) == { seq[k].id : k \in { j \in 1..Len(seq) : seq[j].type # "relation" } }

LayersOnPage == { i \in 1..Len(InputLayers) : OnRequestedPage(InputLayers[i]) }

-----------------------------------------------------------------------------
(* C1: when predict has returned, every layer of the prediction has exactly *)
(* one relation in the result if it is on the requested page and its depth  *)
(* interval has an end, and none otherwise; that relation runs from          *)
(* "{id}_Material Description" to "{id}_Depth Interval", with type           *)
(* "relation" and direction "right"; and no other relation is emitted.       *)
C1_RelationIffEnd ==
    pc = "done" =>
        /\ \A i \in 1..Len(InputLayers) :
            LET layer == InputLayers[i]
                rels == RelationsOf(Emitted, layer)
            IN /\ Cardinality(rels) = IF OnRequestedPage(layer) /\ HasEnd(layer) THEN 1 ELSE 0
               /\ \A k \in rels :
                    Emitted[k] = [type |-> "relation", from_id |-> MdId(layer),
                                  to_id |-> DiId(layer), direction |-> "right"]
        /\ \A k \in 1..Len(Emitted) :
            Emitted[k].type = "relation" =>
                \E i \in 1..Len(InputLayers) : k \in RelationsOf(Emitted, InputLayers[i])

\* a returned result with a relation for a layer with end only, next to a layer
\* of the same page that has no end and got none
C1_Witness ==
    /\ pc = "done"
    /\ \E i, j \in LayersOnPage :
        /\ HasEnd(InputLayers[i]) /\ ~HasStart(InputLayers[i])
        /\ Cardinality(RelationsOf(Emitted, InputLayers[i])) = 1
        /\ ~HasEnd(InputLayers[j])
        /\ RelationsOf(Emitted, InputLayers[j]) = {}

-----------------------------------------------------------------------------
(* C2: a layer of the requested page whose depth interval has start but no  *)
(* end never makes predict raise; once predict has returned, the result     *)
(* holds no result with id "{id}_Depth Interval" and no relation for that   *)
(* layer, holds its Material Description region, and holds the Material     *)
(* Description region of every other layer of the page.                     *)
StartOnly(layer) == HasStart(layer) /\ ~HasEnd(layer)

C2_StartOnlySkipped ==
    (\E i \in LayersOnPage : StartOnly(InputLayers[i])) =>
        /\ raised = "none"
        /\ pc # "raised"
        /\ pc = "done" =>
            /\ Len(model_predictions) = 1
            /\ \A i \in LayersOnPage :
                /\ Cardinality(ResultsWithId(Emitted, MdId(InputLayers[i]))) = 3
                /\ StartOnly(InputLayers[i]) =>
                    /\ ResultsWithId(Emitted, DiId(InputLayers[i])) = {}
                    /\ RelationsOf(Emitted, InputLayers[i]) = {}

\* the start-only layer comes first and a complete layer after it was processed
C2_Witness ==
    /\ pc = "done"
    /\ \E i, j \in LayersOnPage :
        /\ i < j
        /\ StartOnly(InputLayers[i])
        /\ HasStart(InputLayers[j]) /\ HasEnd(InputLayers[j])
        /\ Cardinality(ResultsWithId(Emitted, DiId(InputLayers[j]))) = 3
        /\ Cardinality(ResultsWithId(Emitted, MdId(InputLayers[i]))) = 3

-----------------------------------------------------------------------------
(* C3: in a returned result every region id is carried by exactly 3         *)
(* results, one each of type rectangle, labels and textarea, with the same  *)
(* x, y, width and height and rotation 0; and a page whose only layer has   *)
(* both depth bounds, without Coordinates, yields exactly 6 results and 1   *)
(* relation.                                                                *)
Geometry(r) == <<r.value.x, r.value.y, r.value.width, r.value.height, r.value.rotation>>

C3_ThreeResultsPerRegion ==
    pc = "done" =>
        /\ \A id \in RegionIds(Emitted) :
            LET ks == ResultsWithId(Emitted, id)
            IN /\ Cardinality(ks) = 3
               /\ \A t \in {"rectangle", "labels", "textarea"} :
                    Cardinality({ k \in ks : Emitted[k].type = t }) = 1
               /\ \A k1, k2 \in ks : Geometry(Emitted[k1]) = Geometry(Emitted[k2])
               /\ \A k \in ks : Emitted[k].value.rotation = 0
        /\ ( /\ Len(model_predictions) = 1
             /\ Cardinality(LayersOnPage) = 1
             /\ \A i \in LayersOnPage : HasStart(InputLayers[i]) /\ HasEnd(InputLayers[i])
             /\ ~CoordinatesOnPage(InputCoordinates, page_number) )
           => /\ Len(Emitted) = 7
              /\ Cardinality({ k \in 1..Len(Emitted) : Emitted[k].type # "relation" }) = 6
              /\ Cardinality({ k \in 1..Len(Emitted) : Emitted[k].type = "relation" }) = 1

\* the scenario: one layer with both bounds on the page, no Coordinates, 7 entries
C3_Witness ==
    /\ pc = "done"
    /\ Len(model_predictions) = 1
    /\ Cardinality(LayersOnPage) = 1
    /\ \A i \in LayersOnPage : HasStart(InputLayers[i]) /\ HasEnd(InputLayers[i])
    /\ InputCoordinates = None
    /\ Len(Emitted) = 7

-----------------------------------------------------------------------------
(* C4: a returned result holds results of the Coordinates region only when  *)
(* the metadata has coordinates whose recorded 1-based page is the          *)
(* requested page_number + 1; otherwise it holds none.                      *)
MetadataResults(seq) ==
    { k \in 1..Len(seq) :
        /\ seq[k].type # "relation"
        /\ \/ seq[k].id \in Uuids
           \/ seq[k].type = "labels" /\ seq[k].value.labels = <<"Coordinates">> }

C4_CoordinatesOnlyOnTheirPage ==
    pc = "done" =>
        ( ~(InputCoordinates # None /\ InputCoordinates.page = page_number + 1)
            => MetadataResults(Emitted) = {} )

\* Coordinates recorded on page 2, page 0 requested and mapped, nothing emitted for them
C4_Witness ==
    /\ pc = "done"
    /\ Len(model_predictions) = 1
    /\ InputCoordinates # None
    /\ InputCoordinates.page = 2
    /\ page_number = 0
    /\ MetadataResults(Emitted) = {}

\* the other side: Coordinates on the requested page are in the result
C4_WitnessEmitted ==
    /\ pc = "done"
    /\ InputCoordinates # None
    /\ InputCoordinates.page = page_number + 1
    /\ Cardinality(MetadataResults(Emitted)) = 3

-----------------------------------------------------------------------------
(* C5: a returned result holds the Material Description region of a layer   *)
(* exactly when the layer's material_description.page_number is             *)
(* page_number + 1, and holds no result and no relation whose id refers to  *)
(* a layer of another page.                                                 *)
C5_LayersOfRequestedPage ==
    (pc = "done" /\ Len(model_predictions) = 1) =>
        \A i \in 1..Len(InputLayers) :
            LET layer == InputLayers[i]
            IN /\ (ResultsWithId(Emitted, MdId(layer)) # {}) <=> OnRequestedPage(layer)
               /\ ~OnRequestedPage(layer) =>
                    /\ ResultsWithId(Emitted, DiId(layer)) = {}
                    /\ RelationsOf(Emitted, layer) = {}

\* two layers with complete intervals on different pages: one mapped, one left out
C5_Witness ==
    /\ pc = "done"
    /\ Len(model_predictions) = 1
    /\ \E i, j \in 1..Len(InputLayers) :
        /\ OnRequestedPage(InputLayers[i]) /\ ~OnRequestedPage(InputLayers[j])
        /\ HasEnd(InputLayers[i]) /\ HasEnd(InputLayers[j])
        /\ ResultsWithId(Emitted, MdId(InputLayers[i])) # {}
        /\ ResultsWithId(Emitted, MdId(InputLayers[j])) = {}

-----------------------------------------------------------------------------
(* C10: no prediction for the requested page.                               *)
NoDocument == Len(prediction) = 0

NoPageSize == Len(prediction) = 1 /\ page_number + 1 > Len(prediction[1].page_sizes)

EmptyPage ==
    /\ Len(prediction) = 1
    /\ page_number + 1 <= Len(prediction[1].page_sizes)
    /\ LayersOnPage = {}
    /\ ~(InputCoordinates # None /\ InputCoordinates.page = page_number + 1)

\* C10 as claimed: in each of the three cases predict raises nothing and
\* returns an empty list of predictions.
C10_EmptyListOfPredictions ==
    (pc \in {"done", "raised"} /\ (NoDocument \/ NoPageSize \/ EmptyPage)) =>
        raised = "none" /\ model_predictions = <<>>

\* C10 as amended: in each of the three cases predict raises nothing; it
\* returns an empty list of predictions when the pipeline returned no
\* document or the page has no page-size entry, and one prediction
\* (model_version "0.0.1") whose result list is empty when the page exists
\* but has no layers and no coordinates.
C10_NoPredictionForPage ==
    (NoDocument \/ NoPageSize \/ EmptyPage) =>
        /\ raised = "none"
        /\ pc # "raised"
        /\ pc = "done" =>
            model_predictions = IF EmptyPage
                                THEN <<[model_version |-> "0.0.1", result |-> <<>>]>>
                                ELSE <<>>

\* a document whose layers and coordinates all lie on another page than the requested one
C10_Witness ==
    /\ pc = "done"
    /\ EmptyPage
    /\ Len(InputLayers) > 0
    /\ InputCoordinates # None
    /\ Len(model_predictions) = 1
    /\ model_predictions[1].result = <<>>

C10_WitnessNoDocument == pc = "done" /\ NoDocument /\ model_predictions = <<>>

C10_WitnessNoPageSize ==
    pc = "done" /\ NoPageSize /\ Len(InputLayers) > 0 /\ model_predictions = <<>>

-----------------------------------------------------------------------------
(* Vocabulary of the properties of the depth-interval heuristics.           *)

\* the numbers of the text: every match of the number pattern, left to right
NumbersOf(text) == get_numbers_from_string(text)

Outcomes == {tesseract_out, text_extractor_out} \ {Pending}

NumberStr(x) == Join(FloatRepr(x.value))

-----------------------------------------------------------------------------
(* C6: once both heuristics have run on the same recovered text, their      *)
(* outcomes are the same string.                                            *)
C6_IdenticalOutput ==
    (tesseract_out # Pending /\ text_extractor_out # Pending) =>
        /\ tesseract_out.kind = "return"
        /\ tesseract_out = text_extractor_out

-----------------------------------------------------------------------------
(* C7: neither heuristic raises, whatever the text, and on a text without   *)
(* any digit each returns exactly "start: end: ".                           *)
C7_NeverRaises ==
    \A out \in Outcomes :
        /\ out.kind = "return"
        /\ (\A i \in 1..Len(result_text) : ~IsDigit(result_text[i])) => out.value = "start: end: "

-----------------------------------------------------------------------------
(* C8: on a text with exactly one number n each heuristic returns           *)
(* "start: 0 end: {|n|}".                                                   *)
C8_SingleNumberIsEnd ==
    Len(NumbersOf(result_text)) = 1 =>
        \A out \in Outcomes :
            out = Returned("start: 0 end: " \o NumberStr(NumbersOf(result_text)[1]))

-----------------------------------------------------------------------------
(* C9: on a text with two or more numbers each heuristic returns            *)
(* "start: {first} end: {last}", first and last being the absolute values   *)
(* of the first and the last number of the whole text.                      *)
C9_FirstAndLastNumber ==
    Len(NumbersOf(result_text)) >= 2 =>
        \A out \in Outcomes :
            out = Returned("start: " \o NumberStr(NumbersOf(result_text)[1]) \o " end: "
                           \o NumberStr(NumbersOf(result_text)[Len(NumbersOf(result_text))]))

-----------------------------------------------------------------------------
(* C11: percentages of the page.                                            *)

\* the rectangles the prediction holds for the requested page
PageRects ==
    (IF InputCoordinates # None /\ InputCoordinates.page = page_number + 1
     THEN {InputCoordinates.rect} ELSE {})
    \cup { InputLayers[i].material_description.rect : i \in LayersOnPage }
    \cup { InputLayers[i].depth_interval.start.rect :
             i \in { j \in LayersOnPage : HasStart(InputLayers[j]) } }
    \cup { InputLayers[i].depth_interval.end.rect :
             i \in { j \in LayersOnPage : HasEnd(InputLayers[j]) } }
    \cup { InputLayers[i].depth_interval.background_rect :
             i \in { j \in LayersOnPage : HasStart(InputLayers[j]) /\ HasEnd(InputLayers[j]) } }

RequestedPageSize == prediction[1].page_sizes[page_number + 1]

\* the rectangle lies within the page
RectInPage(rect, page_size) ==
    /\ 0 <= rect.x0 /\ 0 <= rect.width /\ rect.x0 + rect.width <= page_size.width
    /\ 0 <= rect.y0 /\ 0 <= rect.height /\ rect.y0 + rect.height <= page_size.height

\* the fraction q lies between 0 and 100
InPercentRange(q) == 0 <= q.num /\ q.num <= 100 * q.den

\* the fraction q is 100 * pixels / length
IsPercentOf(q, pixels, length) == q.den > 0 /\ q.num * length = 100 * pixels * q.den

ValueInRange(v) ==
    InPercentRange(v.x) /\ InPercentRange(v.y) /\ InPercentRange(v.width) /\ InPercentRange(v.height)

ValueOfRect(v, rect, page_size) ==
    /\ IsPercentOf(v.x, rect.x0, page_size.width)
    /\ IsPercentOf(v.y, rect.y0, page_size.height)
    /\ IsPercentOf(v.width, rect.width, page_size.width)
    /\ IsPercentOf(v.height, rect.height, page_size.height)

AnnotationResults == { k \in 1..Len(Emitted) : Emitted[k].type # "relation" }

\* C11 as claimed: in a returned result every x, y, width and height is a
\* percentage of the page dimension between 0 and 100, whatever the prediction.
C11_AlwaysWithinPercentRange ==
    pc = "done" =>
        \A k \in AnnotationResults :
            /\ ValueInRange(Emitted[k].value)
            /\ \E rect \in PageRects : ValueOfRect(Emitted[k].value, rect, RequestedPageSize)

\* C11 as amended: in a returned result every x, y, width and height is 100
\* times a pixel measure of a rectangle of the prediction divided by the page
\* width (x, width) or the page height (y, height), never the pixel measure
\* itself; it lies between 0 and 100 when the rectangles of the prediction
\* for the requested page lie within the page.
C11_PercentOfPage ==
    pc = "done" =>
        \A k \in AnnotationResults :
            /\ \E rect \in PageRects : ValueOfRect(Emitted[k].value, rect, RequestedPageSize)
            /\ (\A rect \in PageRects : RectInPage(rect, RequestedPageSize))
                  => ValueInRange(Emitted[k].value)

\* Coordinates and a complete layer on the requested page, all within the page, mapped
C11_Witness ==
    /\ pc = "done"
    /\ InputCoordinates # None
    /\ InputCoordinates.page = page_number + 1
    /\ \E i \in LayersOnPage : HasStart(InputLayers[i]) /\ HasEnd(InputLayers[i])
    /\ \A rect \in PageRects : RectInPage(rect, RequestedPageSize)
    /\ Cardinality(AnnotationResults) >= 9
    /\ \A k \in AnnotationResults : ValueInRange(Emitted[k].value)

-----------------------------------------------------------------------------
(* C12: in a returned result the geometry of a Depth Interval region is     *)
(* that of the end rectangle when the interval has end only, and that of    *)
(* background_rect when it has start and end; it is neither that of the     *)
(* start rectangle nor that of the layer's material-description rectangle.  *)
C12_DepthIntervalGeometry ==
    pc = "done" =>
        \A i \in LayersOnPage :
            LET layer == InputLayers[i]
                interval == layer.depth_interval
            IN \A k \in ResultsWithId(Emitted, DiId(layer)) :
                /\ HasEnd(layer)
                /\ ValueOfRect(Emitted[k].value,
                               IF HasStart(layer) THEN interval.background_rect ELSE interval.end.rect,
                               RequestedPageSize)
                /\ HasStart(layer) =>
                     ~ValueOfRect(Emitted[k].value, interval.start.rect, RequestedPageSize)
                /\ ~ValueOfRect(Emitted[k].value, layer.material_description.rect, RequestedPageSize)

\* one layer of the page with end only and one with both bounds, each with its region
C12_Witness ==
    /\ pc = "done"
    /\ \E i, j \in LayersOnPage :
        /\ HasEnd(InputLayers[i]) /\ ~HasStart(InputLayers[i])
        /\ HasEnd(InputLayers[j]) /\ HasStart(InputLayers[j])
        /\ Cardinality(ResultsWithId(Emitted, DiId(InputLayers[i]))) = 3
        /\ Cardinality(ResultsWithId(Emitted, DiId(InputLayers[j]))) = 3

-----------------------------------------------------------------------------
(* C13: in a returned result the textarea of a Depth Interval region        *)
(* carries the single text "start: {start} end: {end}" of the values of     *)
(* that layer's interval, with 0 for a missing start; the textarea of a     *)
(* Material Description region carries the layer's description text; a      *)
(* rectangle result carries neither text nor labels, and the labels field   *)
(* is carried by the labels results alone, holding the region's label.      *)
Fields(r) == DOMAIN r.value

\* the label of the region a result belongs to, by its id
RegionLabel(r) ==
    IF r.id \in Uuids THEN "Coordinates"
    ELSE IF \E i \in 1..Len(InputLayers) : r.id = MdId(InputLayers[i]) THEN "Material Description"
    ELSE "Depth Interval"

C13_TextAndLabels ==
    pc = "done" =>
        /\ \A k \in AnnotationResults :
            LET r == Emitted[k]
            IN /\ r.type = "rectangle" => "text" \notin Fields(r) /\ "labels" \notin Fields(r)
               /\ r.type = "labels" =>
                    /\ "labels" \in Fields(r) /\ "text" \notin Fields(r)
                    /\ r.value.labels = <<RegionLabel(r)>>
               /\ r.type = "textarea" => "text" \in Fields(r) /\ "labels" \notin Fields(r)
        /\ \A i \in LayersOnPage :
            LET layer == InputLayers[i]
                interval == layer.depth_interval
            IN /\ \A k \in ResultsWithId(Emitted, MdId(layer)) :
                    Emitted[k].type = "textarea" =>
                        Emitted[k].value.text = <<layer.material_description.text>>
               /\ \A k \in ResultsWithId(Emitted, DiId(layer)) :
                    Emitted[k].type = "textarea" =>
                        Emitted[k].value.text =
                            << "start: "
                               \o (IF HasStart(layer) THEN FloatStr(interval.start.value) ELSE "0")
                               \o " end: " \o FloatStr(interval.end.value) >>

\* two layers of the page, one with end only and one with both bounds, with their textareas
C13_Witness ==
    /\ pc = "done"
    /\ \E i, j \in LayersOnPage :
        /\ HasEnd(InputLayers[i]) /\ ~HasStart(InputLayers[i])
        /\ HasEnd(InputLayers[j]) /\ HasStart(InputLayers[j])
        /\ \E k \in ResultsWithId(Emitted, DiId(InputLayers[i])) :
            Emitted[k].type = "textarea" /\ Len(Emitted[k].value.text) = 1
        /\ \E k \in ResultsWithId(Emitted, DiId(InputLayers[j])) :
            Emitted[k].type = "textarea" /\ Len(Emitted[k].value.text) = 1

-----------------------------------------------------------------------------
(* C14: in a returned result every relation's from_id and to_id are ids of  *)
(* annotation results of the same list; every relation comes after every    *)
(* annotation result; the metadata results come before all others; the      *)
(* results of the layers come in the input order of the layers, and for     *)
(* each layer its Material Description results come before its Depth        *)
(* Interval results.                                                        *)
LayerResults(layer) ==
    ResultsWithId(Emitted, MdId(layer)) \cup ResultsWithId(Emitted, DiId(layer))

C14_IntegrityAndOrder ==
    pc = "done" =>
        /\ \A k \in 1..Len(Emitted) :
            Emitted[k].type = "relation" =>
                /\ ResultsWithId(Emitted, Emitted[k].from_id) # {}
                /\ ResultsWithId(Emitted, Emitted[k].to_id) # {}
                /\ \A j \in AnnotationResults : j < k
        /\ \A k \in MetadataResults(Emitted) :
            \A j \in AnnotationResults \ MetadataResults(Emitted) : k < j
        /\ \A i \in LayersOnPage :
            /\ \A k \in ResultsWithId(Emitted, MdId(InputLayers[i])) :
                \A j \in ResultsWithId(Emitted, DiId(InputLayers[i])) : k < j
            /\ \A i2 \in LayersOnPage :
                i < i2 => \A k \in LayerResults(InputLayers[i]) :
                            \A j \in LayerResults(InputLayers[i2]) : k < j

\* Coordinates and two layers with depth intervals on the page: 15 results, then 2 relations
C14_Witness ==
    /\ pc = "done"
    /\ Cardinality(MetadataResults(Emitted)) = 3
    /\ Cardinality(LayersOnPage) = 2
    /\ \A i \in LayersOnPage : HasEnd(InputLayers[i])
    /\ Cardinality(AnnotationResults) = 15
    /\ Len(Emitted) = 17

-----------------------------------------------------------------------------
(* C15: a layer of the requested page whose depth interval is absent, or    *)
(* present with neither start nor end, never makes predict raise; once      *)
(* predict has returned, the result holds no Depth Interval result and no   *)
(* relation for that layer, and holds its Material Description region.      *)
NoInterval(layer) == layer.depth_interval = None

EmptyInterval(layer) ==
    /\ layer.depth_interval # None
    /\ layer.depth_interval.start = None
    /\ layer.depth_interval.end = None

C15_EmptyIntervalSkipped ==
    \A i \in LayersOnPage :
        (NoInterval(InputLayers[i]) \/ EmptyInterval(InputLayers[i])) =>
            /\ raised = "none"
            /\ pc # "raised"
            /\ pc = "done" =>
                /\ Len(model_predictions) = 1
                /\ ResultsWithId(Emitted, DiId(InputLayers[i])) = {}
                /\ RelationsOf(Emitted, InputLayers[i]) = {}
                /\ Cardinality(ResultsWithId(Emitted, MdId(InputLayers[i]))) = 3

\* a page with a layer without interval and a layer with an empty interval, both mapped
C15_Witness ==
    /\ pc = "done"
    /\ \E i, j \in LayersOnPage :
        /\ NoInterval(InputLayers[i])
        /\ EmptyInterval(InputLayers[j])
        /\ Cardinality(ResultsWithId(Emitted, MdId(InputLayers[i]))) = 3
        /\ Cardinality(ResultsWithId(Emitted, MdId(InputLayers[j]))) = 3
        /\ Len(Emitted) = 6

====
